---- MODULE Spec2Model ----
(***************************************************************************)
(* The CARLA scenario scripts of the repository as one state machine.      *)
(* A behaviour is one run of one script: setup (Initializing), the render  *)
(* loop (Running), the finally block (Terminating) and the end (Stopped).  *)
(* The simulator, the traffic manager, the camera sensors' frame callbacks *)
(* and the pygame event queue are the environment: their answers are the    *)
(* nondeterministic choices of the actions.                                *)
(*                                                                         *)
(* Time is counted in whole seconds and advances in multiples of Quantum    *)
(* seconds: the fixed step of synchronous mode (0.05 s in the scripts) is   *)
(* one Quantum, a variable step is 1..MaxDelta of them.                     *)
(***************************************************************************)
EXTENDS Integers, Sequences, FiniteSets, TLC

\* ---------------------------------------------------------------- bounds
MaxNpc == 1        \* NPC spawn attempts modelled of a script's range(6) / range(10)
MaxFrames == 2     \* frames the cameras deliver in a run, all cameras together
MaxStart == 1      \* simulator time already elapsed when the script connects
MaxDelta == 2      \* largest variable simulation step, in quanta
MaxLag == 1        \* wall-clock seconds the loop may lose against simulated time
MaxRun == 14       \* simulated seconds modelled of a loop with no duration bound
Quantum == 5       \* resolution of simulated time, and the fixed step of synchronous mode
NumPoints == 2     \* candidate spawn points handed to spawn_vehicle_safe
MaxCoord == 3      \* world coordinates of a projected point lie in -MaxCoord..MaxCoord
MaxHeight == 2     \* largest height of the drone camera above the ground
MaxSegs == 3       \* segments of a topology
MaxJid == 2        \* junction ids of a topology
MaxSize == 3       \* widths and heights handed to get_intrinsic_matrix lie in -MaxSize..MaxSize
MaxPoints == 3     \* candidate spawn points of a call of spawn_vehicle_safe
MaxTries == 4      \* largest tries of a call of spawn_vehicle_safe

\* --------------------------------------------------------------- scripts
Scripts ==
    {"demo1", "npc_only", "dual", "test02", "traces", "split", "junction",
     "ego_with_npc", "demo_npc", "npc_visible"}

Cams == {"cam1", "cam2"}
NpcName(i) == <<"npc1", "npc2", "npc3", "npc4">>[i]
Actors == {"ego", "new_npc", "cam1", "cam2"} \cup {NpcName(i) : i \in 1..4}

Min(a, b) == IF a < b THEN a ELSE b

\* range(n) of the NPC spawn loop (test02 spawns a single NPC)
NpcAttempts(s) ==
    CASE s \in {"npc_only", "ego_with_npc"} -> 6
      [] s \in {"traces", "split", "demo_npc", "npc_visible"} -> 10
      [] s = "test02" -> 1
      [] OTHER -> 0

\* the NPCs the model gives a script: the first MaxNpc attempts of its loop
NpcSlots(s) == {NpcName(i) : i \in 1..Min(NpcAttempts(s), MaxNpc)}

\* whether the script takes --sync
HasSyncArg(s) == s \notin {"dual", "junction"}

\* whether the script touches the traffic manager's synchronous mode
UsesTM(s) == s \in {"dual", "ego_with_npc"}

\* the vehicle a camera is attached to (attach_to=...), "" for a free camera
Owner(s, c) ==
    IF c = "cam1" /\ s \in {"demo1", "dual", "test02", "traces", "split", "demo_npc"}
    THEN "ego" ELSE ""

Op(k, a) == [k |-> k, a |-> a]

\* the statements of setup that act on the simulator, in program order
SetupOps(s) ==
    CASE s = "demo1" ->
           <<Op("apply_sync", "args"), Op("spawn", "ego"), Op("spawn", "cam1"),
             Op("listen", "cam1")>>
      [] s = "npc_only" ->
           <<Op("apply_sync", "args"), Op("try_spawn_npcs", "")>>
      [] s = "dual" ->
           <<Op("apply_sync", "always"), Op("tm_sync", "true"),
             Op("spawn_safe", "ego"), Op("spawn_safe", "npc1"),
             Op("spawn", "cam1"), Op("listen", "cam1"),
             Op("spawn", "cam2"), Op("listen", "cam2")>>
      [] s = "test02" ->
           <<Op("apply_sync", "args"), Op("spawn", "ego"),
             Op("try_spawn_npcs", ""), Op("try_spawn_new", "new_npc"),
             Op("spawn", "cam1"), Op("listen", "cam1"),
             Op("spawn", "cam2"), Op("listen", "cam2")>>
      [] s \in {"traces", "split"} ->
           <<Op("apply_sync", "args"), Op("spawn", "ego"),
             Op("try_spawn_npcs", ""),
             Op("spawn", "cam1"), Op("listen", "cam1"),
             Op("spawn", "cam2"), Op("listen", "cam2")>>
      [] s = "junction" ->
           <<Op("spawn", "ego"), Op("spawn", "cam1"), Op("listen", "cam1")>>
      [] s = "ego_with_npc" ->
           <<Op("apply_sync", "args"), Op("tm_sync", "args"), Op("spawn", "ego"),
             Op("try_spawn_npcs", ""), Op("spawn", "cam1"), Op("listen", "cam1")>>
      [] s = "demo_npc" ->
           <<Op("apply_sync", "args"), Op("spawn", "ego"),
             Op("try_spawn_npcs", ""), Op("spawn", "cam1"), Op("listen", "cam1")>>
      [] OTHER -> \* npc_visible
           <<Op("apply_sync", "args"), Op("try_spawn_npcs", ""),
             Op("spawn", "cam1"), Op("listen", "cam1")>>

\* a try block that covers the whole setup of every script but the dual-view one
TryFromStart(s) == IF s = "dual" THEN 3 ELSE 1

\* index of the first setup statement inside the try block; a script whose
\* try starts at the loop has none
TryFrom(s) == IF s = "dual" THEN 3 ELSE Len(SetupOps(s)) + 1

\* a loop that moves the follow camera before it steps the simulator
LoopOpsPoseFirst(s) ==
    CASE s = "demo1" ->
           <<Op("step", "config"), Op("time", "exit"), Op("control", "ego"),
             Op("render", "plain"), Op("events", "")>>
      [] s = "npc_only" ->
           <<Op("step", "config"), Op("time", "exit"), Op("control", "npcs"),
             Op("events", "")>>
      [] s = "dual" ->
           <<Op("step", "tick"), Op("events", ""), Op("render", "plain"),
             Op("wall_check", "")>>
      [] s = "test02" ->
           <<Op("follow", "cam2"), Op("step", "config"), Op("render", "plain"),
             Op("npc_ctl", "npc1"), Op("time", "read"), Op("new_npc_ctl", "new_npc"),
             Op("events", "")>>
      [] s = "traces" ->
           <<Op("step", "tick"), Op("time", "exit"), Op("control", "npcs"),
             Op("log", "ego"), Op("render", "plain"), Op("events", "")>>
      [] s = "junction" ->
           <<Op("follow", "cam1"), Op("step", "wait"), Op("render", "overlay"),
             Op("events", "")>>
      [] OTHER -> \* split, ego_with_npc, demo_npc, npc_visible
           <<Op("step", "config"), Op("time", "exit"), Op("control", "npcs"),
             Op("render", "plain"), Op("events", "")>>

\* the statements of one loop iteration, in program order
LoopOps(s) ==
    CASE s = "demo1" ->
           <<Op("step", "config"), Op("time", "exit"), Op("control", "ego"),
             Op("render", "plain"), Op("events", "")>>
      [] s = "npc_only" ->
           <<Op("step", "config"), Op("time", "exit"), Op("control", "npcs"),
             Op("events", "")>>
      [] s = "dual" ->
           <<Op("step", "tick"), Op("events", ""), Op("render", "plain"),
             Op("wall_check", "")>>
      [] s = "test02" ->
           <<Op("step", "config"), Op("follow", "cam2"), Op("render", "plain"),
             Op("npc_ctl", "npc1"), Op("time", "read"), Op("new_npc_ctl", "new_npc"),
             Op("events", "")>>
      [] s = "traces" ->
           <<Op("step", "tick"), Op("time", "exit"), Op("control", "npcs"),
             Op("log", "ego"), Op("render", "plain"), Op("events", "")>>
      [] s = "junction" ->
           <<Op("step", "wait"), Op("follow", "cam1"), Op("render", "overlay"),
             Op("events", "")>>
      [] OTHER -> \* split, ego_with_npc, demo_npc, npc_visible
           <<Op("step", "config"), Op("time", "exit"), Op("control", "npcs"),
             Op("render", "plain"), Op("events", "")>>

\* the statements of the finally block, in program order
TeardownOps(s) ==
    CASE s = "demo1" ->
           <<Op("stop", "cam1"), Op("destroy", "cam1"), Op("destroy", "ego"),
             Op("restore", "")>>
      [] s = "npc_only" ->
           <<Op("destroy_npcs", ""), Op("restore", "")>>
      [] s = "dual" ->
           <<Op("stop_sensors", ""), Op("destroy_alive", ""), Op("restore", "")>>
      [] s = "test02" ->
           <<Op("stop", "cam1"), Op("stop", "cam2"), Op("destroy", "ego"),
             Op("restore", "")>>
      [] s = "traces" ->
           <<Op("save_csv", ""), Op("destroy", "cam1"), Op("destroy", "cam2"),
             Op("destroy", "ego"), Op("destroy_npcs", ""), Op("restore", "")>>
      [] s = "split" ->
           <<Op("destroy", "cam1"), Op("destroy", "cam2"), Op("destroy", "ego"),
             Op("destroy_npcs", ""), Op("restore", "")>>
      [] s = "junction" ->
           <<Op("stop", "cam1"), Op("destroy", "cam1"), Op("destroy", "ego")>>
      [] s \in {"ego_with_npc", "demo_npc"} ->
           <<Op("stop", "cam1"), Op("destroy", "cam1"), Op("destroy", "ego"),
             Op("destroy_npcs", ""), Op("restore", "")>>
      [] OTHER -> \* npc_visible
           <<Op("stop", "cam1"), Op("destroy", "cam1"), Op("destroy_npcs", ""),
             Op("restore", "")>>

\* ------------------------------------------------------- timing constants
HasDuration(s) == s \notin {"test02", "junction"}
HasRedRule(s) == s \notin {"test02", "junction", "dual"}

\* TOTAL_TIME (RUN_TIME in dual)
TotalTime(s) ==
    CASE s \in {"demo1", "npc_only", "ego_with_npc"} -> 20
      [] s \in {"traces", "split"} -> 45
      [] s = "demo_npc" -> 120
      [] s \in {"npc_visible", "dual"} -> 30
      [] OTHER -> 0

RedStart(s) == IF s \in {"demo1", "npc_only", "ego_with_npc"} THEN 5 ELSE 10
RedEnd(s) == IF s \in {"demo1", "npc_only", "ego_with_npc"} THEN 10 ELSE 15

\* the throttle of the go phase, in tenths
GoThrottle(s) ==
    CASE s = "demo1" -> 6
      [] s \in {"npc_only", "ego_with_npc"} -> 5
      [] OTHER -> 7

\* new_npc_start_time of test02
NewNpcStart == 13
\* tries=40 of spawn_vehicle_safe
Tries == 40

Ctl(t, b) == [throttle |-> t, brake |-> b]
NoCtl == Ctl(-1, -1)

\* a red window that is closed at RED_END
InRedClosed(s, e) == RedStart(s) <= e /\ e <= RedEnd(s)

\* elapsed lies in the red window
InRed(s, e) == RedStart(s) <= e /\ e < RedEnd(s)

\* a rule whose red window comes round again every 20 seconds
RuleControlPeriodic(s, e) ==
    IF InRed(s, e % 20) THEN Ctl(0, 1) ELSE Ctl(GoThrottle(s), 0)

\* carla.VehicleControl chosen by the windowed rule
RuleControl(s, e) == IF InRed(s, e) THEN Ctl(0, 1) ELSE Ctl(GoThrottle(s), 0)

\* a duration test that lets the loop run at elapsed = TOTAL_TIME
ExpiredStrict(s, e) == e > TotalTime(s)

\* an origin that is set on every pass
OriginEveryPass(start, sim) == sim

\* if start_time is None: start_time = sim_time (None is -1)
Origin(start, sim) == IF start = -1 THEN sim ELSE start

\* the duration test of the loop
Expired(s, e) == e >= TotalTime(s)

\* ------------------------------------------------------------------ state
VARIABLES
    script,             \* which script runs
    argsSync,           \* args.sync
    phase,              \* Initializing, Running, Terminating, Stopped
    idx,                \* the statement of the phase to run next
    running,            \* demo1's loop flag `running`
    done,               \* the statements the current iteration has run, in order
    world,              \* the simulator's settings: synchronous_mode, fixed_delta_seconds
    original_settings,  \* world.get_settings() read at start
    tmSync,             \* the traffic manager's synchronous mode
    tmOrig,             \* its value before the script ran
    alive,              \* per actor: none (never spawned), alive, dead
    actors,             \* dual's list `actors`
    listening,          \* per camera: listen() called and not stopped
    stopCalled,         \* per camera: stop() has been called
    unstopped,          \* cameras destroyed, or whose vehicle was destroyed, with no stop() before
    camera_transform,   \* the transform of the follow camera (junction's camera, test02's drone_cam)
    slot,               \* per camera: the shared surface variable, 0 is None
    cb,                 \* per camera: the running callback's frame (negative while
                        \* it is not a complete surface) and its position
    published,          \* per camera: the frame of the last callback that completed, 0 if none
    simTime,            \* the simulator's elapsed_seconds
    firstSim,           \* the simulator's time after the first step of the loop, -1 before
    start_time,         \* the script's start_time, -1 is None
    elapsed,            \* the script's elapsed, -1 before it is computed
    wall,               \* time.time() - start of dual
    issued,             \* the step call of the current iteration: none, tick, wait
    ctl,                \* per actor: the control applied to it in this iteration
    blit,               \* per camera: the frame blitted in this iteration, 0 is none
    overlay,            \* whether landmark markers were drawn in this iteration
    trajectory,         \* rows in ego_trajectory
    csvWrites,          \* times ego_trajectory.csv was written
    samples,            \* the time column of ego_trajectory: first, last, whether non-decreasing
    csvFile,            \* ego_trajectory.csv as last written: header, rows, time column
    goSeen,             \* a throttle control was applied at an elapsed time >= RED_END
    err,                \* the exception that ended setup or the loop, none if none
    errPhase,           \* the phase the exception was raised in, none if none
    exitReason,         \* why the loop was left: none, duration, quit, error
    tdDone,             \* the finally block ran to its end
    world_location,     \* project_world_to_image: the point, <<x, y, z>>
    world_2_camera,     \* project_world_to_image: camera.get_transform().get_inverse_matrix()
    K,                  \* project_world_to_image: the intrinsic matrix
    projection,         \* what the call of project_world_to_image did and returned
    topology,           \* get_junction_centers: carla_map.get_topology()
    aggregation,        \* what the call of get_junction_centers built and returned
    size,               \* the overlay loop: <<width, height>> of the display
    junctions,          \* the overlay loop: the landmarks' locations, in list order
    markers,            \* the overlay loop: what it did for each landmark so far
    labels,             \* the overlay loop: per landmark, the labels it was drawn with in the run
    intrinsic,          \* get_intrinsic_matrix: its arguments and what the call did
    spawn               \* spawn_vehicle_safe: its arguments, loop index, attempts and result

progVars == <<script, argsSync, phase, idx, running, done>>
simVars == <<world, original_settings, tmSync, tmOrig, alive, actors>>
camVars == <<listening, stopCalled, unstopped, camera_transform>>
frameVars == <<slot, cb, published>>
timeVars == <<simTime, firstSim, start_time, elapsed, wall, issued>>
iterVars == <<ctl, blit, overlay>>
logVars == <<trajectory, csvWrites, samples, csvFile, goSeen>>
endVars == <<err, errPhase, exitReason, tdDone>>

callVars == <<size, junctions, markers, labels, intrinsic, spawn>>
pureVars ==
    <<world_location, world_2_camera, K, projection, topology, aggregation, callVars>>
mainVars ==
    <<progVars, simVars, camVars, frameVars, timeVars, iterVars, logVars, endVars>>

vars ==
    <<progVars, simVars, camVars, frameVars, timeVars, iterVars, logVars, endVars,
      pureVars>>

\* DRONE_HEIGHT of junction_points, z=80 of test02's drone camera
DroneHeight(s) == IF s = "junction" THEN 90 ELSE 80

Pose(x, y, z, pitch, yaw, roll) ==
    [x |-> x, y |-> y, z |-> z, pitch |-> pitch, yaw |-> yaw, roll |-> roll]

\* the transform the follow camera is spawned with
SpawnPose(s) == Pose(0, 0, DroneHeight(s), -90, 0, 0)

\* ego_vehicle.get_location() when the simulator's time is t: the vehicle
\* moves with simulated time
EgoLoc(t) == [x |-> t, y |-> 2 * t, z |-> 1]

\* a follow pose that keeps the target's height
FollowPoseFull(ego_loc, height) ==
    Pose(ego_loc.x, ego_loc.y, ego_loc.z + height, -90, 0, 0)

\* carla.Transform(carla.Location(x=ego_loc.x, y=ego_loc.y, z=DRONE_HEIGHT),
\*                 carla.Rotation(pitch=-90))
FollowPose(ego_loc, height) == Pose(ego_loc.x, ego_loc.y, height, -90, 0, 0)

\* fieldnames of the csv.DictWriter
Fieldnames == <<"time", "x", "y", "z", "speed", "yaw">>

\* no row appended yet
NoSamples == [first |-> -1, last |-> -1, sorted |-> TRUE]

\* ego_trajectory.csv does not exist
NoFile == [header |-> <<>>, rows |-> 0, times |-> NoSamples]

\* a row stamped with the simulator's absolute time
SampleTimeAbsolute(e, sim) == sim

\* "time": elapsed of a row of ego_trajectory
SampleTime(e, sim) == e

\* the time column after one more row
Appended(col, n, t) ==
    [first |-> (IF n = 0 THEN t ELSE col.first),
     last |-> t,
     sorted |-> col.sorted /\ (n = 0 \/ col.last <= t)]

\* no callback is running
NoFrame == [frame |-> 0, pc |-> "idle"]

AsyncSettings == [sync |-> FALSE, delta |-> 0]
SyncSettings == [sync |-> TRUE, delta |-> Quantum]

\* the scripts' state at the start of a run
MainInit ==
    /\ script \in Scripts
    /\ argsSync \in (IF HasSyncArg(script) THEN BOOLEAN ELSE {FALSE})
    /\ phase = "Initializing"
    /\ idx = 1
    /\ running = TRUE
    /\ done = <<>>
    /\ world \in {AsyncSettings, SyncSettings}
    /\ original_settings = world
    /\ tmSync \in (IF UsesTM(script) THEN BOOLEAN ELSE {FALSE})
    /\ tmOrig = tmSync
    /\ alive = [a \in Actors |-> "none"]
    /\ actors = {}
    /\ listening = [c \in Cams |-> FALSE]
    /\ stopCalled = [c \in Cams |-> FALSE]
    /\ unstopped = {}
    /\ camera_transform = SpawnPose(script)
    /\ slot = [c \in Cams |-> 0]
    /\ cb = [c \in Cams |-> NoFrame]
    /\ published = [c \in Cams |-> 0]
    /\ simTime \in 0..MaxStart
    /\ firstSim = -1
    /\ start_time = -1
    /\ elapsed = -1
    /\ wall = 0
    /\ issued = "none"
    /\ ctl = [a \in Actors |-> NoCtl]
    /\ blit = [c \in Cams |-> 0]
    /\ overlay = FALSE
    /\ trajectory = 0
    /\ csvWrites = 0
    /\ samples = NoSamples
    /\ csvFile = NoFile
    /\ goSeen = FALSE
    /\ err = "none"
    /\ errPhase = "none"
    /\ exitReason = "none"
    /\ tdDone = FALSE

\* project_world_to_image has not been called
NotProjected ==
    [returned |-> FALSE, none |-> FALSE, divided |-> FALSE, by |-> 0,
     u |-> [n |-> 0, d |-> 1], v |-> [n |-> 0, d |-> 1], pixel |-> <<0, 0>>]

\* get_junction_centers has not been called
NotAggregated == [returned |-> FALSE, junction_dict |-> <<>>, centers |-> <<>>]

\* get_intrinsic_matrix has not been called
NoIntrinsic ==
    [width |-> 0, height |-> 0, fov |-> 0, returned |-> FALSE, raised |-> FALSE,
     k00 |-> [n |-> 0, d |-> 1], k11 |-> [n |-> 0, d |-> 1],
     k02 |-> [n |-> 0, d |-> 1], k12 |-> [n |-> 0, d |-> 1]]

\* spawn_vehicle_safe has not been called
NoSpawn ==
    [spawn_points |-> <<>>, tries |-> 0, shuffled |-> FALSE, i |-> 0,
     attempts |-> <<>>, returned |-> FALSE, v |-> FALSE, sp |-> 0]

\* the overlay loop, get_intrinsic_matrix and spawn_vehicle_safe are not
\* running
CallsIdle ==
    /\ size = <<0, 0>>
    /\ junctions = <<>>
    /\ markers = <<>>
    /\ labels = <<>>
    /\ intrinsic = NoIntrinsic
    /\ spawn = NoSpawn

\* project_world_to_image and get_junction_centers are not running
FunctionsIdle ==
    /\ world_location = <<0, 0, 0>>
    /\ world_2_camera = <<>>
    /\ K = [focal |-> 0, cx |-> 0, cy |-> 0]
    /\ projection = NotProjected
    /\ topology = <<>>
    /\ aggregation = NotAggregated

\* a run of a script: the functions of junction_points.py and
\* spawn_vehicle_safe are modelled apart, under specifications of their own
Init ==
    /\ MainInit
    /\ world_location = <<0, 0, 0>>
    /\ world_2_camera = <<>>
    /\ K = [focal |-> 0, cx |-> 0, cy |-> 0]
    /\ projection = NotProjected
    /\ topology = <<>>
    /\ aggregation = NotAggregated
    /\ CallsIdle

\* ------------------------------------------------------------ control flow
CurOps ==
    CASE phase = "Initializing" -> SetupOps(script)
      [] phase = "Running" -> LoopOps(script)
      [] phase = "Terminating" -> TeardownOps(script)
      [] OTHER -> <<>>

At(p, k) == phase = p /\ idx <= Len(CurOps) /\ CurOps[idx].k = k
Arg == CurOps[idx].a

\* what the loop statement at hand adds to the record of the iteration: the
\* time statement of a script with a duration reads the time and tests it
Ran ==
    CASE phase # "Running" -> <<>>
      [] CurOps[idx].k = "time" /\ Arg = "exit" -> <<"time", "check">>
      [] CurOps[idx].k = "wall_check" -> <<"check">>
      [] CurOps[idx].k \in {"control", "npc_ctl", "new_npc_ctl"} -> <<"control">>
      [] OTHER -> <<CurOps[idx].k>>

\* the record with the statement at hand run; the step starts a new iteration
Record ==
    IF phase = "Running" /\ CurOps[idx].k = "step" THEN Ran ELSE done \o Ran

\* the next statement; setup falls into the loop, the loop wraps around,
\* the finally block ends the run
Advance ==
    /\ script' = script
    /\ argsSync' = argsSync
    /\ done' = Record
    /\ IF idx < Len(CurOps)
       THEN phase' = phase /\ idx' = idx + 1 /\ tdDone' = tdDone
       ELSE /\ idx' = 1
            /\ phase' = (IF phase = "Terminating" THEN "Stopped" ELSE "Running")
            /\ tdDone' = (phase = "Terminating")

\* an exception leaves setup or the loop: into the finally block when the
\* statement is inside the try, out of the script when it is not
Raise(kind) ==
    /\ script' = script
    /\ argsSync' = argsSync
    /\ running' = running
    /\ done' = Record
    /\ err' = kind
    /\ errPhase' = phase
    /\ exitReason' = "error"
    /\ idx' = 1
    /\ tdDone' = FALSE
    /\ phase' = (IF phase = "Initializing" /\ idx < TryFrom(script)
                 THEN "Stopped" ELSE "Terminating")

\* break or return inside the try: the finally block runs
Leave(reason) ==
    /\ script' = script
    /\ argsSync' = argsSync
    /\ running' = running
    /\ done' = Record
    /\ err' = err
    /\ errPhase' = errPhase
    /\ exitReason' = reason
    /\ idx' = 1
    /\ tdDone' = FALSE
    /\ phase' = "Terminating"

Go == Advance /\ running' = running /\ UNCHANGED <<err, errPhase, exitReason>>

\* ------------------------------------------------------------------ setup
\* settings.synchronous_mode = True; fixed_delta_seconds = 0.05; apply_settings
ApplySync ==
    /\ At("Initializing", "apply_sync")
    /\ world' = (IF Arg = "always" \/ argsSync THEN SyncSettings ELSE world)
    /\ Go
    /\ UNCHANGED <<original_settings, tmSync, tmOrig, alive, actors>>
    /\ UNCHANGED <<camVars, frameVars, timeVars, iterVars, logVars, pureVars>>

\* traffic_manager.set_synchronous_mode(...)
TmSync ==
    /\ At("Initializing", "tm_sync")
    /\ tmSync' = (IF Arg = "true" THEN TRUE ELSE argsSync)
    /\ Go
    /\ UNCHANGED <<world, original_settings, tmOrig, alive, actors>>
    /\ UNCHANGED <<camVars, frameVars, timeVars, iterVars, logVars, pureVars>>

\* world.spawn_actor(...) that succeeds; dual appends its cameras to actors
Spawn ==
    /\ At("Initializing", "spawn")
    /\ alive' = [alive EXCEPT ![Arg] = "alive"]
    /\ actors' = (IF script = "dual" THEN actors \cup {Arg} ELSE actors)
    /\ Go
    /\ UNCHANGED <<world, original_settings, tmSync, tmOrig>>
    /\ UNCHANGED <<camVars, frameVars, timeVars, iterVars, logVars, pureVars>>

\* spawn_vehicle_safe: the index of the first of the first min(tries, len)
\* shuffled candidates that is free, 0 when none is
RECURSIVE FirstFree(_, _, _)
FirstFree(free, i, n) ==
    IF i > n THEN 0
    ELSE IF free[i] THEN i
    ELSE FirstFree(free, i + 1, n)

SpawnVehicleSafe(free, tries) == FirstFree(free, 1, Min(tries, Len(free)))

\* v, _ = spawn_vehicle_safe(...); a vehicle is put on autopilot and appended
\* to actors; a missing ego raises RuntimeError("Failed to spawn ego
\* vehicle"), a missing NPC is skipped
SpawnSafe ==
    /\ At("Initializing", "spawn_safe")
    /\ \E free \in [1..NumPoints -> BOOLEAN] :
         LET got == SpawnVehicleSafe(free, Tries) IN
         IF got # 0
         THEN /\ alive' = [alive EXCEPT ![Arg] = "alive"]
              /\ actors' = actors \cup {Arg}
              /\ Go
         ELSE /\ alive' = alive
              /\ actors' = actors
              /\ IF Arg = "ego"
                 THEN Raise("SpawnFailed")
                 ELSE Go
    /\ UNCHANGED <<world, original_settings, tmSync, tmOrig>>
    /\ UNCHANGED <<camVars, frameVars, timeVars, iterVars, logVars, pureVars>>

\* the loop of world.try_spawn_actor: any of the attempts may return None
TrySpawnNpcs ==
    /\ At("Initializing", "try_spawn_npcs")
    /\ \E got \in SUBSET NpcSlots(script) :
         alive' = [a \in Actors |-> IF a \in got THEN "alive" ELSE alive[a]]
    /\ Go
    /\ UNCHANGED <<world, original_settings, tmSync, tmOrig, actors>>
    /\ UNCHANGED <<camVars, frameVars, timeVars, iterVars, logVars, pureVars>>

\* new_npc = world.try_spawn_actor(...); if new_npc: npc.set_autopilot(False)
\* where npc is None when its own spawn failed
TrySpawnNew ==
    /\ At("Initializing", "try_spawn_new")
    /\ \E ok \in BOOLEAN :
         /\ alive' = [alive EXCEPT ![Arg] = IF ok THEN "alive" ELSE "none"]
         /\ IF ok /\ alive["npc1"] = "none"
            THEN Raise("AttributeError")
            ELSE Go
    /\ UNCHANGED <<world, original_settings, tmSync, tmOrig, actors>>
    /\ UNCHANGED <<camVars, frameVars, timeVars, iterVars, logVars, pureVars>>

\* camera.listen(callback)
Listen ==
    /\ At("Initializing", "listen")
    /\ listening' = [listening EXCEPT ![Arg] = TRUE]
    /\ Go
    /\ UNCHANGED <<stopCalled, unstopped, camera_transform>>
    /\ UNCHANGED <<simVars, frameVars, timeVars, iterVars, logVars, pureVars>>

Setup ==
    \/ ApplySync
    \/ TmSync
    \/ Spawn
    \/ SpawnSafe
    \/ TrySpawnNpcs
    \/ TrySpawnNew
    \/ Listen

\* ------------------------------------------------- the simulator's failures
\* the statement at hand calls the simulator
CallsSimulator ==
    \/ /\ phase = "Initializing"
       /\ idx <= Len(CurOps)
       /\ CurOps[idx].k = "apply_sync" => (Arg = "always" \/ argsSync)
    \/ At("Running", "step") /\ running

\* a simulator call raises (a failed spawn, a timeout, a lost connection)
CallFails ==
    /\ CallsSimulator
    /\ Raise("RuntimeError")
    /\ UNCHANGED <<simVars, camVars, frameVars, timeVars, iterVars, logVars, pureVars>>

\* ------------------------------------------------------------------- loop
\* the step is the explicit world.tick()
UsesTick == Arg = "tick" \/ (Arg = "config" /\ argsSync)

\* wall-clock seconds dual's loop has lost against simulated time so far
LagNow == IF firstSim = -1 THEN 0 ELSE wall - (simTime - firstSim) - Quantum

\* world.tick() / world.wait_for_tick(): wait_for_tick returns only when the
\* world ticks by itself; every iteration starts with the step, where the
\* per-iteration records are cleared
Step ==
    /\ At("Running", "step")
    /\ running
    /\ UsesTick \/ ~world.sync
    /\ HasDuration(script) \/ firstSim = -1 \/ simTime - firstSim < MaxRun
    /\ \E d \in (IF world.sync THEN {world.delta}
                ELSE {Quantum * k : k \in 1..MaxDelta}) :
         /\ simTime' = simTime + d
         /\ firstSim' = (IF firstSim = -1 THEN simTime + d ELSE firstSim)
         /\ IF script = "dual"
            THEN \E l \in 0..MaxLag :
                   /\ LagNow + l <= MaxLag
                   /\ wall' = wall + d + l
            ELSE wall' = wall
    /\ issued' = (IF UsesTick THEN "tick" ELSE "wait")
    /\ ctl' = [a \in Actors |-> NoCtl]
    /\ blit' = [c \in Cams |-> 0]
    /\ overlay' = FALSE
    /\ Go
    /\ UNCHANGED <<start_time, elapsed>>
    /\ UNCHANGED <<simVars, camVars, frameVars, logVars, pureVars>>

\* the step of a loop with no duration bound once MaxRun simulated seconds
\* have passed: the loop goes on as before, and simulated times beyond
\* MaxRun are not told apart
StepBeyond ==
    /\ At("Running", "step")
    /\ running
    /\ UsesTick \/ ~world.sync
    /\ ~HasDuration(script) /\ firstSim # -1 /\ simTime - firstSim >= MaxRun
    /\ issued' = (IF UsesTick THEN "tick" ELSE "wait")
    /\ ctl' = [a \in Actors |-> NoCtl]
    /\ blit' = [c \in Cams |-> 0]
    /\ overlay' = FALSE
    /\ Go
    /\ UNCHANGED <<simTime, firstSim, start_time, elapsed, wall>>
    /\ UNCHANGED <<simVars, camVars, frameVars, logVars, pureVars>>

\* sim_time = ...elapsed_seconds; start_time on the first pass; elapsed; the
\* duration test where the script has one
Time ==
    /\ At("Running", "time")
    /\ start_time' = Origin(start_time, simTime)
    /\ elapsed' = simTime - start_time'
    /\ IF Arg = "exit" /\ Expired(script, elapsed')
       THEN Leave("duration")
       ELSE Go
    /\ UNCHANGED <<simTime, firstSim, wall, issued>>
    /\ UNCHANGED <<simVars, camVars, frameVars, iterVars, logVars, pureVars>>

\* the actors the windowed rule is applied to
Targets(s, who) ==
    IF who = "ego" THEN {"ego"} ELSE {a \in NpcSlots(s) : alive[a] = "alive"}

\* control = ...; apply_control(control) on the ego or on every spawned NPC
Control ==
    /\ At("Running", "control")
    /\ ctl' = [a \in Actors |->
                 IF a \in Targets(script, Arg)
                 THEN RuleControl(script, elapsed) ELSE ctl[a]]
    /\ goSeen' = (goSeen \/ (elapsed >= RedEnd(script) /\
                             \E a \in Targets(script, Arg) : ctl'[a].throttle > 0))
    /\ Go
    /\ UNCHANGED <<blit, overlay>>
    /\ UNCHANGED <<trajectory, csvWrites, samples, csvFile>>
    /\ UNCHANGED <<simVars, camVars, frameVars, timeVars, pureVars>>

\* test02: npc.apply_control(throttle=0.8), npc is None when its spawn failed
NpcCtl ==
    /\ At("Running", "npc_ctl")
    /\ IF alive[Arg] = "none"
       THEN ctl' = ctl /\ Raise("AttributeError")
       ELSE ctl' = [ctl EXCEPT ![Arg] = Ctl(8, 0)] /\ Go
    /\ UNCHANGED <<blit, overlay>>
    /\ UNCHANGED <<simVars, camVars, frameVars, timeVars, logVars, pureVars>>

\* test02: new_npc brakes until new_npc_start_time, then drives; new_npc is
\* None when its spawn failed
NewNpcCtl ==
    /\ At("Running", "new_npc_ctl")
    /\ IF alive[Arg] = "none"
       THEN ctl' = ctl /\ Raise("AttributeError")
       ELSE /\ ctl' = [ctl EXCEPT ![Arg] =
                         IF elapsed < NewNpcStart THEN Ctl(0, 1) ELSE Ctl(5, 0)]
            /\ Go
    /\ UNCHANGED <<blit, overlay>>
    /\ UNCHANGED <<simVars, camVars, frameVars, timeVars, logVars, pureVars>>

\* ego_vehicle.get_location(); camera.set_transform(...)
Follow ==
    /\ At("Running", "follow")
    /\ camera_transform' = FollowPose(EgoLoc(simTime), DroneHeight(script))
    /\ Go
    /\ UNCHANGED <<listening, stopCalled, unstopped>>
    /\ UNCHANGED <<simVars, frameVars, timeVars, iterVars, logVars, pureVars>>

\* traces: draw the trajectory line and append one row to ego_trajectory
Log ==
    /\ At("Running", "log")
    /\ trajectory' = trajectory + 1
    /\ samples' = Appended(samples, trajectory, SampleTime(elapsed, simTime))
    /\ csvWrites' = csvWrites
    /\ csvFile' = csvFile
    /\ goSeen' = goSeen
    /\ Go
    /\ UNCHANGED <<simVars, camVars, frameVars, timeVars, iterVars, pureVars>>

\* the cameras a script creates
ScriptCams(s) == {c \in Cams : \E i \in 1..Len(SetupOps(s)) : SetupOps(s)[i] = Op("spawn", c)}

\* a render that blits without the test
ShouldBlitAlways(surface) == TRUE

\* `if surface is not None:` / `if surface:`
ShouldBlit(surface) == surface # 0

\* display.blit of every surface that passes the test (blitting None raises
\* TypeError); junction_points draws its markers inside the same test
Render ==
    /\ At("Running", "render")
    /\ LET tried == {c \in ScriptCams(script) : ShouldBlit(slot[c])} IN
       IF \E c \in tried : slot[c] = 0
       THEN /\ blit' = blit
            /\ overlay' = overlay
            /\ Raise("TypeError")
       ELSE /\ blit' = [c \in Cams |-> IF c \in tried THEN slot[c] ELSE 0]
            /\ overlay' = (Arg = "overlay" /\ "cam1" \in tried)
            /\ Go
    /\ ctl' = ctl
    /\ UNCHANGED <<simVars, camVars, frameVars, timeVars, logVars, pureVars>>

\* a QUIT event ends the loop by clearing its flag
OnQuitFlag(s) == "flag"

\* what the QUIT branch of the event loop does: demo1 clears `running`, the
\* other scripts return
OnQuit(s) == IF s = "demo1" THEN "flag" ELSE "return"

\* for event in pygame.event.get(): if event.type == pygame.QUIT: ...
Events ==
    /\ At("Running", "events")
    /\ \E quit \in BOOLEAN :
         CASE ~quit -> Go
           [] quit /\ OnQuit(script) = "return" -> Leave("quit")
           [] OTHER -> /\ Advance
                       /\ running' = FALSE
                       /\ UNCHANGED <<err, errPhase, exitReason>>
    /\ UNCHANGED <<simVars, camVars, frameVars, timeVars, iterVars, logVars, pureVars>>

\* `while running:` finds the flag cleared: the loop ends and the finally
\* block runs
LoopExit ==
    /\ At("Running", "step")
    /\ ~running
    /\ phase' = "Terminating"
    /\ idx' = 1
    /\ exitReason' = "quit"
    /\ tdDone' = FALSE
    /\ UNCHANGED <<script, argsSync, running, done, err, errPhase>>
    /\ UNCHANGED <<simVars, camVars, frameVars, timeVars, iterVars, logVars, pureVars>>

\* dual: time.time() - start > RUN_TIME
WallExpired(s, w) == w > TotalTime(s)

WallCheck ==
    /\ At("Running", "wall_check")
    /\ IF WallExpired(script, wall) THEN Leave("duration") ELSE Go
    /\ UNCHANGED <<simVars, camVars, frameVars, timeVars, iterVars, logVars, pureVars>>

Loop ==
    \/ Step
    \/ Time
    \/ Control
    \/ NpcCtl
    \/ NewNpcCtl
    \/ Follow
    \/ Log
    \/ Render
    \/ Events
    \/ LoopExit
    \/ WallCheck

\* -------------------------------------------------------- frame callbacks
RECURSIVE SumOver(_, _)
SumOver(f, S) ==
    IF S = {} THEN 0
    ELSE LET c == CHOOSE x \in S : TRUE IN f[c] + SumOver(f, S \ {c})

\* frames delivered or being delivered so far
Delivered == SumOver(published, Cams) + Cardinality({c \in Cams : cb[c] # NoFrame})

\* a surface left as the raw data it is made from
MakeSurfacePartial(raw) == raw

\* pygame.surfarray.make_surface(...) / img.convert(): the complete surface
\* of the raw frame
MakeSurface(raw) == -raw

\* a slot that keeps the frame it holds
PublishFirst(old, new) == IF old = 0 THEN new ELSE old

\* a slot that is emptied when a frame arrives while it holds one
PublishOrClear(old, new) == IF old = 0 THEN new ELSE 0

\* surface = <the new surface>: the slot holds the new surface only
Publish(old, new) == new

\* the sensor thread enters the callback of a listening camera: it converts
\* the image in place and decodes it into locals, not yet a surface
CbBuild(c) ==
    /\ phase # "Stopped"
    /\ listening[c]
    /\ alive[c] = "alive"
    /\ cb[c] = NoFrame
    /\ Delivered < MaxFrames
    /\ cb' = [cb EXCEPT ![c] = [frame |-> -(published[c] + 1), pc |-> "make"]]
    /\ UNCHANGED <<slot, published>>
    /\ UNCHANGED <<progVars, simVars, camVars, timeVars, iterVars, logVars, pureVars, endVars>>

\* the right-hand side of the callback's last statement: the surface is built
CbMake(c) ==
    /\ phase # "Stopped"
    /\ cb[c].pc = "make"
    /\ cb' = [cb EXCEPT ![c] = [frame |-> MakeSurface(cb[c].frame), pc |-> "assign"]]
    /\ UNCHANGED <<slot, published>>
    /\ UNCHANGED <<progVars, simVars, camVars, timeVars, iterVars, logVars, pureVars, endVars>>

\* the callback's last statement stores: surface = <the new surface>
CbAssign(c) ==
    /\ phase # "Stopped"
    /\ cb[c].pc = "assign"
    /\ slot' = [slot EXCEPT ![c] = Publish(slot[c], cb[c].frame)]
    /\ published' = [published EXCEPT ![c] = published[c] + 1]
    /\ cb' = [cb EXCEPT ![c] = NoFrame]
    /\ UNCHANGED <<progVars, simVars, camVars, timeVars, iterVars, logVars, pureVars, endVars>>

Callback == \E c \in Cams : CbBuild(c) \/ CbMake(c) \/ CbAssign(c)

\* ---------------------------------------------------------------- teardown
\* an exception inside the finally block ends it
TeardownRaise(kind) ==
    /\ script' = script
    /\ argsSync' = argsSync
    /\ running' = running
    /\ done' = done
    /\ err' = kind
    /\ errPhase' = phase
    /\ exitReason' = exitReason
    /\ idx' = 1
    /\ tdDone' = FALSE
    /\ phase' = "Stopped"

\* the cameras that lose their sensor or their vehicle with destroy(a) and
\* had no stop() before
LeftUnstopped(a) ==
    {c \in Cams : /\ c = a \/ Owner(script, c) = a
                  /\ alive[c] # "none"
                  /\ ~stopCalled[c]}

\* camera.stop()
Stop ==
    /\ At("Terminating", "stop")
    /\ stopCalled' = [stopCalled EXCEPT ![Arg] = TRUE]
    /\ listening' = [listening EXCEPT ![Arg] = FALSE]
    /\ unstopped' = unstopped
    /\ camera_transform' = camera_transform
    /\ Go
    /\ UNCHANGED <<simVars, frameVars, timeVars, iterVars, logVars, pureVars>>

\* a.destroy() of a variable bound in setup
Destroy ==
    /\ At("Terminating", "destroy")
    /\ IF alive[Arg] = "none"
       THEN /\ alive' = alive
            /\ unstopped' = unstopped
            /\ TeardownRaise("NameError")
       ELSE /\ alive' = [alive EXCEPT ![Arg] = "dead"]
            /\ unstopped' = unstopped \cup LeftUnstopped(Arg)
            /\ Go
    /\ UNCHANGED <<listening, stopCalled, camera_transform>>
    /\ UNCHANGED <<world, original_settings, tmSync, tmOrig, actors>>
    /\ UNCHANGED <<frameVars, timeVars, iterVars, logVars, pureVars>>

\* for npc in npc_vehicles: npc.destroy()
DestroyNpcs ==
    /\ At("Terminating", "destroy_npcs")
    /\ alive' = [a \in Actors |->
                   IF a \in NpcSlots(script) /\ alive[a] = "alive" THEN "dead" ELSE alive[a]]
    /\ Go
    /\ UNCHANGED <<world, original_settings, tmSync, tmOrig, actors>>
    /\ UNCHANGED <<camVars, frameVars, timeVars, iterVars, logVars, pureVars>>

\* dual: for a in actors: if isinstance(a, carla.Sensor): a.stop()
StopSensors ==
    /\ At("Terminating", "stop_sensors")
    /\ stopCalled' = [c \in Cams |-> stopCalled[c] \/ c \in actors]
    /\ listening' = [c \in Cams |-> listening[c] /\ c \notin actors]
    /\ unstopped' = unstopped
    /\ camera_transform' = camera_transform
    /\ Go
    /\ UNCHANGED <<simVars, frameVars, timeVars, iterVars, logVars, pureVars>>

\* dual: for a in actors: if a.is_alive: a.destroy()
DestroyAlive ==
    /\ At("Terminating", "destroy_alive")
    /\ LET going == {a \in actors : alive[a] = "alive"} IN
       /\ alive' = [a \in Actors |-> IF a \in going THEN "dead" ELSE alive[a]]
       /\ unstopped' = unstopped \cup UNION {LeftUnstopped(a) : a \in going}
    /\ Go
    /\ UNCHANGED <<listening, stopCalled, camera_transform>>
    /\ UNCHANGED <<world, original_settings, tmSync, tmOrig, actors>>
    /\ UNCHANGED <<frameVars, timeVars, iterVars, logVars, pureVars>>

\* the settings the finally block applies
Restored(orig) == orig

\* world.apply_settings(original_settings)
Restore ==
    /\ At("Terminating", "restore")
    /\ world' = Restored(original_settings)
    /\ Go
    /\ UNCHANGED <<original_settings, tmSync, tmOrig, alive, actors>>
    /\ UNCHANGED <<camVars, frameVars, timeVars, iterVars, logVars, pureVars>>

\* traces: write ego_trajectory.csv
SaveCsv ==
    /\ At("Terminating", "save_csv")
    /\ csvWrites' = csvWrites + 1
    /\ csvFile' = [header |-> Fieldnames, rows |-> trajectory, times |-> samples]
    /\ trajectory' = trajectory
    /\ samples' = samples
    /\ goSeen' = goSeen
    /\ Go
    /\ UNCHANGED <<simVars, camVars, frameVars, timeVars, iterVars, pureVars>>

Teardown ==
    \/ Stop
    \/ Destroy
    \/ DestroyNpcs
    \/ StopSensors
    \/ DestroyAlive
    \/ Restore
    \/ SaveCsv

Next ==
    \/ Setup
    \/ CallFails
    \/ Loop
    \/ Callback
    \/ Teardown

Spec == Init /\ [][Next]_vars

\* the statements of the script itself, in any phase
Script == Setup \/ Loop \/ StepBeyond \/ Teardown

LiveNext == Next \/ StepBeyond

\* a run in which the script keeps running: the interpreter executes the
\* statement at hand whenever it can be executed; the loop of a script with
\* no duration bound is not cut at MaxRun
LiveSpec == Init /\ [][LiveNext]_vars /\ WF_vars(Script)

\* ------------------------------------------- junction_points.py: projection
\* Pixel quantities are exact rationals [n, d] with d > 0 where the script
\* computes floats; the intrinsic matrix is kept in half pixels, so that
\* width / 2.0 is exact for an odd width.

\* get_intrinsic_matrix(width, height, 90): focal = width / (2 tan 45 deg),
\* principal point (width / 2, height / 2); the entries are numerators over 2
GetIntrinsicMatrix(width, height) == [focal |-> width, cx |-> width, cy |-> height]

\* a row of a 4x4 matrix times a homogeneous point
Dot(r, pt) == r[1] * pt[1] + r[2] * pt[2] + r[3] * pt[3] + r[4] * pt[4]

\* world_2_camera @ point, its first three components
MatVec(M, pt) == <<Dot(M[1], pt), Dot(M[2], pt), Dot(M[3], pt)>>

\* an axis change that keeps the sign of z
ToCameraAxesNoFlip(pc) == <<pc[2], pc[3], pc[1]>>

\* UE4 to conventional camera coordinates: (y, -z, x)
ToCameraAxes(pc) == <<pc[2], -pc[3], pc[1]>>

\* a test that lets a zero depth through
BehindStrict(depth) == depth < 0

\* if point_camera[2] <= 0: return None
Behind(depth) == depth <= 0

\* int(n / d) of Python: truncation toward zero (d > 0 wherever the script
\* divides)
IntOf(n, d) ==
    IF d <= 0 THEN 0
    ELSE IF n >= 0 THEN n \div d ELSE -((-n) \div d)

\* project_world_to_image(world_location, camera, K) with M the camera's
\* inverse matrix: what it returns, whether it divided and by what, and the
\* image coordinates u, v before the integer conversion
ProjectWorldToImage(loc, M, k) ==
    LET point == <<loc[1], loc[2], loc[3], 1>>
        point_camera == ToCameraAxes(MatVec(M, point))
        depth == point_camera[3]
        \* K @ point_camera, then point_img /= point_img[2]
        u == [n |-> k.focal * point_camera[1] + k.cx * depth, d |-> 2 * depth]
        v == [n |-> k.focal * point_camera[2] + k.cy * depth, d |-> 2 * depth]
    IN  IF Behind(depth)
        THEN [NotProjected EXCEPT !.returned = TRUE, !.none = TRUE]
        ELSE [returned |-> TRUE, none |-> FALSE, divided |-> TRUE, by |-> depth,
              u |-> u, v |-> v, pixel |-> <<IntOf(u.n, u.d), IntOf(v.n, v.d)>>]

\* the inverse matrix of a camera at the identity pose
IdentityPose ==
    <<<<1, 0, 0, 0>>, <<0, 1, 0, 0>>, <<0, 0, 1, 0>>, <<0, 0, 0, 1>>>>

\* the inverse matrix of the drone camera: at (x, y, h), pitch -90, so that
\* its forward axis points down
DronePose(x, y, h) ==
    <<<<0, 0, -1, h>>, <<0, 1, 0, -y>>, <<1, 0, 0, -x>>, <<0, 0, 0, 1>>>>

Coords == (-MaxCoord)..MaxCoord
Poses == {IdentityPose} \cup {DronePose(x, y, h) : x \in 0..1, y \in 0..1, h \in 1..MaxHeight}
Resolutions == {<<4, 2>>, <<5, 3>>}

ProjectionInit ==
    /\ MainInit
    /\ script = "junction"
    /\ world = AsyncSettings
    /\ simTime = 0
    /\ world_location \in Coords \X Coords \X Coords
    /\ world_2_camera \in Poses
    /\ \E res \in Resolutions : K = GetIntrinsicMatrix(res[1], res[2])
    /\ projection = NotProjected
    /\ topology = <<>>
    /\ aggregation = NotAggregated
    /\ CallsIdle

\* pixel = project_world_to_image(loc_draw, camera, K)
Project ==
    /\ ~projection.returned
    /\ projection' = ProjectWorldToImage(world_location, world_2_camera, K)
    /\ UNCHANGED <<world_location, world_2_camera, K, topology, aggregation, callVars>>
    /\ UNCHANGED mainVars

ProjectionNext == Project

ProjectionSpec == ProjectionInit /\ [][ProjectionNext]_vars

\* ------------------------------------- junction_points.py: junction centres
\* junction_dict is the sequence of its items [jid, locs] in insertion order,
\* which is the order a Python dict iterates in.

\* an accumulator that enters a new id with no position
DictAppendKeyOnly(d, jid, loc) ==
    IF \E k \in 1..Len(d) : d[k].jid = jid
    THEN [k \in 1..Len(d) |->
            IF d[k].jid = jid THEN [d[k] EXCEPT !.locs = Append(@, loc)] ELSE d[k]]
    ELSE Append(d, [jid |-> jid, locs |-> <<>>])

\* if jid not in junction_dict: junction_dict[jid] = []; then the append
DictAppend(d, jid, loc) ==
    IF \E k \in 1..Len(d) : d[k].jid = jid
    THEN [k \in 1..Len(d) |->
            IF d[k].jid = jid THEN [d[k] EXCEPT !.locs = Append(@, loc)] ELSE d[k]]
    ELSE Append(d, [jid |-> jid, locs |-> <<loc>>])

\* for wp_start, wp_end in topology, from segment i on
RECURSIVE ScanTopology(_, _, _)
ScanTopology(topo, i, d) ==
    IF i > Len(topo) THEN d
    ELSE LET wp_start == topo[i][1] IN
         IF wp_start.is_junction
         THEN ScanTopology(topo, i + 1, DictAppend(d, wp_start.jid, wp_start.loc))
         ELSE ScanTopology(topo, i + 1, d)

\* sum(xs)
RECURSIVE Sum(_)
Sum(xs) == IF xs = <<>> THEN 0 ELSE xs[1] + Sum(Tail(xs))

\* the middle of the first and the last value
MeanOfEnds(xs) == [n |-> xs[1] + xs[Len(xs)], d |-> 2]

\* sum(xs) / len(xs)
Mean(xs) == [n |-> Sum(xs), d |-> Len(xs)]

\* carla.Location(x=sum(xs) / len(xs), y=..., z=...)
Center(locs) ==
    [x |-> Mean([m \in 1..Len(locs) |-> locs[m][1]]),
     y |-> Mean([m \in 1..Len(locs) |-> locs[m][2]]),
     z |-> Mean([m \in 1..Len(locs) |-> locs[m][3]])]

\* get_junction_centers(world) on the topology topo
GetJunctionCenters(topo) ==
    LET d == ScanTopology(topo, 1, <<>>) IN
    [returned |-> TRUE,
     junction_dict |-> d,
     centers |-> [k \in 1..Len(d) |-> [jid |-> d[k].jid, center |-> Center(d[k].locs)]]]

\* the waypoints of a topology: one outside every junction, and junction
\* members at the positions Locs; the end of a segment, whose position the
\* scan never reads, takes the first position only
Locs == {<<0, 0, 0>>, <<2, 0, 0>>, <<1, 2, 0>>}
Waypoints ==
    {[is_junction |-> FALSE, jid |-> 0, loc |-> <<0, 0, 0>>]}
        \cup {[is_junction |-> TRUE, jid |-> j, loc |-> l] : j \in 1..MaxJid, l \in Locs}
EndWaypoints == {w \in Waypoints : w.loc = <<0, 0, 0>>}
\* the topologies of n segments
Topologies(n) == [1..n -> Waypoints \X EndWaypoints]

JunctionInit ==
    /\ MainInit
    /\ script = "junction"
    /\ world = AsyncSettings
    /\ simTime = 0
    /\ world_location = <<0, 0, 0>>
    /\ world_2_camera = <<>>
    /\ K = [focal |-> 0, cx |-> 0, cy |-> 0]
    /\ projection = NotProjected
    /\ \E n \in 0..MaxSegs : topology \in Topologies(n)
    /\ aggregation = NotAggregated
    /\ CallsIdle

\* junctions = get_junction_centers(world)
Aggregate ==
    /\ ~aggregation.returned
    /\ aggregation' = GetJunctionCenters(topology)
    /\ UNCHANGED <<world_location, world_2_camera, K, projection, topology, callVars>>
    /\ UNCHANGED mainVars

JunctionNext == Aggregate

JunctionSpec == JunctionInit /\ [][JunctionNext]_vars

\* --------------------------------------- junction_points.py: overlay loop
\* The for loop over junctions of an iteration whose surface is not None.

\* loc_draw = loc + carla.Location(z=1.0)
LocDraw(loc) == <<loc[1], loc[2], loc[3] + 1>>

\* a viewport test that lets the pixel column `width` and row `height` through
InViewportClosed(x, y, width, height) ==
    0 <= x /\ x <= width /\ 0 <= y /\ y <= height

\* if 0 <= x < width and 0 <= y < height
InViewport(x, y, width, height) ==
    0 <= x /\ x < width /\ 0 <= y /\ y < height

\* a label that counts the markers drawn before in the iteration
LabelOfDrawn(i, before) ==
    Cardinality({k \in 1..Len(before) : before[k].drawn})

\* the number enumerate(junctions) gives landmark i (counted from 1),
\* whatever the loop did for the landmarks `before` it
Label(i, before) == i - 1

\* one pass of the loop body for landmark i (counted from 1) whose projection
\* is p: continue on None, the marker and its label str(i - 1) when the pixel
\* is in the viewport
Marker(i, p, sz, before) ==
    [label |-> Label(i, before), none |-> p.none, pixel |-> p.pixel,
     drawn |-> ~p.none /\ InViewport(p.pixel[1], p.pixel[2], sz[1], sz[2])]

\* the landmarks' locations: on the ground or one above it
Landmarks == Coords \X Coords \X {0, 1}

\* the drone camera's inverse matrix above the origin
OverlayPoses == {DronePose(0, 0, h) : h \in 1..MaxHeight}

OverlayInit ==
    /\ MainInit
    /\ script = "junction"
    /\ world = AsyncSettings
    /\ simTime = 0
    /\ world_location = <<0, 0, 0>>
    /\ projection = NotProjected
    /\ topology = <<>>
    /\ aggregation = NotAggregated
    /\ size \in Resolutions
    /\ K = GetIntrinsicMatrix(size[1], size[2])
    /\ world_2_camera \in OverlayPoses
    /\ \E n \in 1..2 : junctions \in [1..n -> Landmarks]
    /\ markers = <<>>
    /\ labels = [i \in 1..Len(junctions) |-> {}]
    /\ intrinsic = NoIntrinsic
    /\ spawn = NoSpawn

\* for i, (jid, loc) in enumerate(junctions): one pass of the body
DrawMarker ==
    /\ Len(markers) < Len(junctions)
    /\ LET i == Len(markers) + 1
           pixel == ProjectWorldToImage(LocDraw(junctions[i]), world_2_camera, K)
           m == Marker(i, pixel, size, markers)
       IN  /\ markers' = Append(markers, m)
           /\ labels' = IF m.drawn
                        THEN [labels EXCEPT ![i] = @ \cup {m.label}]
                        ELSE labels
    /\ UNCHANGED <<world_location, world_2_camera, K, projection, topology, aggregation>>
    /\ UNCHANGED <<size, junctions, intrinsic, spawn>>
    /\ UNCHANGED mainVars

\* the next iteration of the loop: the camera has been moved and the overlay
\* loop starts over on the same list
NextOverlay ==
    /\ Len(markers) = Len(junctions)
    /\ world_2_camera' \in OverlayPoses
    /\ markers' = <<>>
    /\ UNCHANGED <<world_location, K, projection, topology, aggregation>>
    /\ UNCHANGED <<size, junctions, labels, intrinsic, spawn>>
    /\ UNCHANGED mainVars

OverlayNext == DrawMarker \/ NextOverlay

OverlaySpec == OverlayInit /\ [][OverlayNext]_vars

\* ------------------------------- junction_points.py: get_intrinsic_matrix
\* The fields of view modelled are those whose half-angle tangent is whole.
Fovs == {-90, 0, 90}

\* np.tan(np.radians(fov) / 2)
TanHalf(fov) ==
    CASE fov = 90 -> 1
      [] fov = -90 -> -1
      [] OTHER -> 0

Sizes == (-MaxSize)..MaxSize

\* get_intrinsic_matrix(width, height, fov): the entries of K it returns, as
\* rationals; a denominator 0 is the inf or nan of a float division by zero,
\* which numpy answers with a warning and no exception
GetIntrinsicMatrixOf(width, height, fov) ==
    LET focal == [n |-> width, d |-> 2 * TanHalf(fov)] IN
    [width |-> width, height |-> height, fov |-> fov,
     returned |-> TRUE, raised |-> FALSE,
     k00 |-> focal, k11 |-> focal,
     k02 |-> [n |-> width, d |-> 2], k12 |-> [n |-> height, d |-> 2]]

IntrinsicInit ==
    /\ MainInit
    /\ script = "junction"
    /\ world = AsyncSettings
    /\ simTime = 0
    /\ FunctionsIdle
    /\ size = <<0, 0>>
    /\ junctions = <<>>
    /\ markers = <<>>
    /\ labels = <<>>
    /\ \E w \in Sizes, h \in Sizes, f \in Fovs :
         intrinsic = [NoIntrinsic EXCEPT !.width = w, !.height = h, !.fov = f]
    /\ spawn = NoSpawn

\* K = get_intrinsic_matrix(width, height, fov)
BuildIntrinsic ==
    /\ ~intrinsic.returned
    /\ intrinsic' = GetIntrinsicMatrixOf(intrinsic.width, intrinsic.height, intrinsic.fov)
    /\ UNCHANGED <<world_location, world_2_camera, K, projection, topology, aggregation>>
    /\ UNCHANGED <<size, junctions, markers, labels, spawn>>
    /\ UNCHANGED mainVars

IntrinsicNext == BuildIntrinsic

IntrinsicSpec == IntrinsicInit /\ [][IntrinsicNext]_vars

\* ------------------------------------------ dual view: spawn_vehicle_safe
\* The candidates are numbered; an attempt is the candidate tried and whether
\* world.try_spawn_actor returned a vehicle.

\* a loop over every candidate, whatever tries
AttemptsAll(tries, n) == n

\* range(min(tries, len(spawn_points)))
Attempts(tries, n) == Min(tries, n)

\* the orders random.shuffle can leave the list in
Shuffles(pts) ==
    {p \in [1..Len(pts) -> {pts[k] : k \in 1..Len(pts)}] :
        \A a, b \in 1..Len(pts) : a # b => p[a] # p[b]}

SpawnInit ==
    /\ MainInit
    /\ script = "dual"
    /\ world = AsyncSettings
    /\ tmSync = FALSE
    /\ simTime = 0
    /\ FunctionsIdle
    /\ size = <<0, 0>>
    /\ junctions = <<>>
    /\ markers = <<>>
    /\ labels = <<>>
    /\ intrinsic = NoIntrinsic
    /\ \E n \in 0..MaxPoints, t \in 0..MaxTries :
         spawn = [NoSpawn EXCEPT !.spawn_points = [k \in 1..n |-> k], !.tries = t]

\* random.shuffle(spawn_points)
Shuffle ==
    /\ ~spawn.shuffled
    /\ \E p \in Shuffles(spawn.spawn_points) :
         spawn' = [spawn EXCEPT !.spawn_points = p, !.shuffled = TRUE]
    /\ UNCHANGED <<world_location, world_2_camera, K, projection, topology, aggregation>>
    /\ UNCHANGED <<size, junctions, markers, labels, intrinsic>>
    /\ UNCHANGED mainVars

\* v = world.try_spawn_actor(blueprint, spawn_points[i]); if v: return v, spawn_points[i]
TrySpawn ==
    /\ spawn.shuffled
    /\ ~spawn.returned
    /\ spawn.i < Attempts(spawn.tries, Len(spawn.spawn_points))
    /\ \E ok \in BOOLEAN :
         LET at == spawn.spawn_points[spawn.i + 1]
             tried == Append(spawn.attempts, [sp |-> at, ok |-> ok])
         IN  spawn' = IF ok
                      THEN [spawn EXCEPT !.attempts = tried, !.returned = TRUE,
                                         !.v = TRUE, !.sp = at]
                      ELSE [spawn EXCEPT !.attempts = tried, !.i = @ + 1]
    /\ UNCHANGED <<world_location, world_2_camera, K, projection, topology, aggregation>>
    /\ UNCHANGED <<size, junctions, markers, labels, intrinsic>>
    /\ UNCHANGED mainVars

\* return None, None
ReturnNone ==
    /\ spawn.shuffled
    /\ ~spawn.returned
    /\ spawn.i >= Attempts(spawn.tries, Len(spawn.spawn_points))
    /\ spawn' = [spawn EXCEPT !.returned = TRUE, !.v = FALSE, !.sp = 0]
    /\ UNCHANGED <<world_location, world_2_camera, K, projection, topology, aggregation>>
    /\ UNCHANGED <<size, junctions, markers, labels, intrinsic>>
    /\ UNCHANGED mainVars

SpawnNext == Shuffle \/ TrySpawn \/ ReturnNone

\* the call runs on: the function is straight-line code around a bounded loop
SpawnSpec == SpawnInit /\ [][SpawnNext]_vars /\ WF_vars(SpawnNext)

\* ------------------------------------------------------------------ claims
\* simulated time since the first iteration's step
SimElapsed == simTime - firstSim

\* the scenario has changed the simulator: a setting differs or an actor was spawned
Changed ==
    \/ world # original_settings
    \/ tmSync # tmOrig
    \/ \E a \in Actors : alive[a] # "none"

\* C1: a control applied by the windowed rule is applied at an elapsed time
\* below TOTAL_TIME, is full brake (throttle 0, brake 1) exactly when
\* RED_START <= elapsed < RED_END, and is throttle with brake 0 otherwise.
C1_ControlRule ==
    \A a \in Actors :
        (HasRedRule(script) /\ ctl[a] # NoCtl) =>
            /\ elapsed < TotalTime(script)
            /\ (ctl[a].throttle = 0 /\ ctl[a].brake = 1)
                 <=> (RedStart(script) <= elapsed /\ elapsed < RedEnd(script))
            /\ ~(RedStart(script) <= elapsed /\ elapsed < RedEnd(script))
                 => (ctl[a].throttle > 0 /\ ctl[a].brake = 0)

\* C1 witness: the rule has applied throttle at elapsed = RED_END, the
\* exclusive end of the braking window
C1_Witness ==
    /\ script = "demo1"
    /\ phase = "Running"
    /\ elapsed = RedEnd(script)
    /\ ctl["ego"] = Ctl(GoThrottle(script), 0)

\* C2: the loop of a script with a duration bound is left by duration expiry
\* only at a simulated elapsed time >= the total duration, and no iteration
\* stays in the loop past its duration test at such an elapsed time.
C2_DurationExit ==
    HasDuration(script) =>
        /\ exitReason = "duration" => SimElapsed >= TotalTime(script)
        /\ (phase = "Running" /\ firstSim # -1 /\ LoopOps(script)[idx].k \notin
               {"time", "wall_check"} /\ (script = "dual" => idx = 1))
             => SimElapsed < TotalTime(script)

\* C3: once the scenario has changed the simulator, every way it ends has
\* run the teardown to its end, and an exception raised in the loop is
\* followed by no further loop statement.
C3_TeardownOnEveryExit ==
    /\ (phase = "Stopped" /\ Changed) => tdDone
    /\ err # "none" => phase # "Running"

\* C4: no camera is destroyed, and no vehicle a camera is attached to is
\* destroyed, before stop() was called on that camera.
C4_StopBeforeDestroy == unstopped = {}

\* C5: when teardown has completed, no actor the scenario spawned is alive.
C5_AllDestroyed ==
    (phase = "Stopped" /\ tdDone) => \A a \in Actors : alive[a] # "alive"

\* C6: when teardown has completed, the world settings and the traffic
\* manager's synchronous mode have their values of before the scenario.
C6_SettingsRestored ==
    (phase = "Stopped" /\ tdDone) =>
        /\ world = original_settings
        /\ tmSync = tmOrig

\* C8: when setup has failed after creating some of the resources, the run
\* ends with every created actor destroyed and every override undone, and
\* the teardown has raised nothing.
C8_PartialSetupTeardown ==
    (phase = "Stopped" /\ errPhase = "Initializing") =>
        /\ \A a \in Actors : alive[a] # "alive"
        /\ world = original_settings
        /\ tmSync = tmOrig
        /\ err # "NameError"

\* C9: a spawn that fails at every candidate position ends no run: no
\* exception is raised for the missing actor, neither by the spawn itself
\* nor by an operation applied to the actor that is not there.
C9_SpawnFailureNonFatal == err \notin {"SpawnFailed", "AttributeError"}

\* C10: while no frame callback of a camera has completed (its slot is
\* still None) the loop has blitted nothing for it and drawn no marker, and
\* rendering has raised no error.
C10_EmptySlotDrawsNothing ==
    /\ \A c \in Cams : slot[c] = 0 => blit[c] = 0
    /\ slot["cam1"] = 0 => ~overlay
    /\ err # "TypeError"

\* C10 witness: an iteration has rendered with the slot still empty and the
\* loop is at the start of its next iteration
C10_Witness ==
    /\ script = "junction"
    /\ phase = "Running"
    /\ idx = 1
    /\ firstSim # -1
    /\ listening["cam1"]
    /\ slot["cam1"] = 0
    /\ err = "none"

\* C11: every frame the loop draws for a camera is the frame of the most
\* recently completed callback of that camera, and the slot keeps its frame
\* while no callback completes.
C11_LatestWins ==
    [][/\ \A c \in Cams :
            (blit'[c] # blit[c] /\ blit'[c] # 0) => blit'[c] = published[c]
       /\ published' = published => slot' = slot]_vars

\* C11 witness: the loop has drawn the second frame of a camera, which
\* replaced the first in the slot
C11_Witness ==
    /\ script = "test02"
    /\ phase = "Running"
    /\ published["cam1"] = 2
    /\ blit["cam1"] = 2

\* C12: the loop never draws a frame that is not a complete surface, and the
\* slot goes in one step from empty or a complete frame to a complete frame.
C12_AtomicPublish ==
    [][\A c \in Cams :
          /\ blit'[c] >= 0
          /\ slot'[c] # slot[c] => (slot[c] >= 0 /\ slot'[c] > 0)]_vars

\* C12 witness: the loop has drawn a complete frame while a callback of the
\* same camera holds a frame that is not yet a surface
C12_Witness ==
    /\ script = "ego_with_npc"
    /\ phase = "Running"
    /\ cb["cam1"].frame < 0
    /\ blit["cam1"] > 0

\* a QUIT event has been seen by the loop
QuitSeen == ~running \/ exitReason = "quit"

\* C19: once the loop has seen a QUIT event it runs no further statement of
\* an iteration (no step, control, pose update, projection or render): the
\* next thing the script does is enter the finally block.
C19_QuitImmediate ==
    [][(QuitSeen /\ phase = "Running") =>
          /\ done' = done
          /\ phase' \in {"Running", "Terminating"}
          /\ UNCHANGED <<simTime, ctl, blit, overlay, trajectory>>]_vars

\* C19 witness: a QUIT event seen right after the step has taken the
\* dual-view script into the finally block with the render skipped
C19_Witness ==
    /\ script = "dual"
    /\ phase = "Terminating"
    /\ exitReason = "quit"
    /\ done = <<"step", "events">>

\* the order of the steps of an iteration: <<a, b>> has a before b
MustPrecede ==
    {<<"step", "time">>, <<"step", "follow">>, <<"step", "control">>,
     <<"step", "render">>, <<"step", "check">>, <<"step", "events">>,
     <<"time", "follow">>, <<"time", "control">>, <<"time", "render">>,
     <<"follow", "render">>, <<"render", "check">>, <<"render", "events">>}

\* C20: an iteration runs its steps in the order step, elapsed-time read,
\* follow-camera pose, render, termination checks: the time read comes
\* before every control and render, the duration check after the render.
C20_IterationOrder ==
    \A i, j \in 1..Len(done) : i < j => <<done[j], done[i]>> \notin MustPrecede

\* the camera-forward component of the point: simulator x in camera-local
\* coordinates
Forward ==
    MatVec(world_2_camera,
           <<world_location[1], world_location[2], world_location[3], 1>>)[1]

\* C13: project_world_to_image returns None exactly when the point's
\* camera-forward component is <= 0 and a pixel pair when it is > 0, and it
\* never divides by a forward component that is zero or negative.
C13_BehindInvalid ==
    projection.returned =>
        /\ projection.none <=> Forward <= 0
        /\ ~projection.none <=> projection.divided
        /\ projection.divided => (projection.by = Forward /\ projection.by > 0)

\* C13 witness: a point in the image plane of the drone camera (forward
\* component exactly 0) was projected and found invalid
C13_Witness ==
    /\ projection.returned
    /\ projection.none
    /\ world_2_camera # IdentityPose
    /\ Forward = 0

\* C14: for a camera at the identity pose a point (x, y, z) with x > 0 has,
\* before the integer conversion, horizontal coordinate cx + f*y/x and
\* vertical coordinate cy - f*z/x, and the principal point when y = z = 0.
C14_IdentityProjection ==
    (projection.returned /\ world_2_camera = IdentityPose /\ world_location[1] > 0) =>
        LET x == world_location[1]
            y == world_location[2]
            z == world_location[3]
        IN  /\ ~projection.none
            /\ projection.u.n * (2 * x) = (K.cx * x + K.focal * y) * projection.u.d
            /\ projection.v.n * (2 * x) = (K.cy * x - K.focal * z) * projection.v.d
            /\ (y = 0 /\ z = 0) =>
                 /\ 2 * projection.u.n = K.cx * projection.u.d
                 /\ 2 * projection.v.n = K.cy * projection.v.d

\* C14 witness: a point ahead of the identity camera, to its right and above
\* its axis, was projected
C14_Witness ==
    /\ projection.returned
    /\ world_2_camera = IdentityPose
    /\ world_location = <<2, 1, 1>>
    /\ ~projection.none

Abs(a) == IF a < 0 THEN -a ELSE a

\* C15: each pixel coordinate of a valid projection is the image coordinate
\* rounded to the nearest integer: it differs from it by at most 1/2.
C15_RoundToNearest ==
    (projection.returned /\ ~projection.none) =>
        /\ 2 * Abs(projection.pixel[1] * projection.u.d - projection.u.n) <= projection.u.d
        /\ 2 * Abs(projection.pixel[2] * projection.v.d - projection.v.n) <= projection.v.d

\* the positions junction_dict holds for a junction id
Accumulated(jid) ==
    LET d == aggregation.junction_dict
        at == {k \in 1..Len(d) : d[k].jid = jid}
    IN  IF at = {} THEN <<>> ELSE d[CHOOSE k \in at : TRUE].locs

\* C16: the position of every endpoint flagged as a junction member, start
\* or end of any segment, is in the accumulator of the endpoint's junction id.
C16_BothEndpoints ==
    aggregation.returned =>
        \A i \in 1..Len(topology), e \in 1..2 :
            topology[i][e].is_junction =>
                \E m \in 1..Len(Accumulated(topology[i][e].jid)) :
                    Accumulated(topology[i][e].jid)[m] = topology[i][e].loc

\* C17: the centroid of every junction id of the output is the elementwise
\* arithmetic mean of the positions accumulated for that id, one output
\* entry per accumulator.
C17_CentroidIsMean ==
    aggregation.returned =>
        /\ Len(aggregation.centers) = Len(aggregation.junction_dict)
        /\ \A k \in 1..Len(aggregation.centers) :
             LET c == aggregation.centers[k].center
                 locs == aggregation.junction_dict[k].locs
                 N == Len(locs)
                 Total(a) == SumOver([m \in 1..N |-> locs[m][a]], 1..N)
             IN  /\ aggregation.centers[k].jid = aggregation.junction_dict[k].jid
                 /\ N > 0
                 /\ c.x.d > 0 /\ c.x.n * N = Total(1) * c.x.d
                 /\ c.y.d > 0 /\ c.y.n * N = Total(2) * c.y.d
                 /\ c.z.d > 0 /\ c.z.n * N = Total(3) * c.z.d

\* C17 witness: positions (0,0,0), (2,0,0), (1,2,0) were accumulated for
\* one junction id and its centroid is (1, 2/3, 0)
C17_Witness ==
    /\ aggregation.returned
    /\ Len(aggregation.centers) = 1
    /\ aggregation.junction_dict[1].locs = <<<<0, 0, 0>>, <<2, 0, 0>>, <<1, 2, 0>>>>
    /\ aggregation.centers[1].center.x.n = aggregation.centers[1].center.x.d
    /\ 3 * aggregation.centers[1].center.y.n = 2 * aggregation.centers[1].center.y.d
    /\ aggregation.centers[1].center.z.n = 0

\* the junction ids met while scanning the topology, at either endpoint
SeenIds ==
    {topology[i][e].jid : <<i, e>> \in
        {ie \in (1..Len(topology)) \X (1..2) : topology[ie[1]][ie[2]].is_junction}}

\* the place in the scan where an id is met first: segments in order, start
\* before end
FirstSeen(jid) ==
    LET at == {2 * i + e : <<i, e>> \in
                 {ie \in (1..Len(topology)) \X (1..2) :
                     /\ topology[ie[1]][ie[2]].is_junction
                     /\ topology[ie[1]][ie[2]].jid = jid}}
    IN  CHOOSE a \in at : \A b \in at : a <= b

\* C18: the output lists every junction id met in the topology exactly once
\* and no other, in the order the ids are first met in the scan.
C18_FirstSeenOrder ==
    aggregation.returned =>
        LET out == aggregation.centers IN
        /\ \A k \in 1..Len(out) : out[k].jid \in SeenIds
        /\ \A j \in SeenIds : Cardinality({k \in 1..Len(out) : out[k].jid = j}) = 1
        /\ \A k1, k2 \in 1..Len(out) :
             k1 < k2 => FirstSeen(out[k1].jid) < FirstSeen(out[k2].jid)

\* the current iteration has run a statement of kind k
InDone(k) == \E i \in 1..Len(done) : done[i] = k

\* the elapsed time the script works with: the wall clock in the dual-view
\* script, elapsed of the simulator's snapshot elsewhere
UsedElapsed == IF script = "dual" THEN wall ELSE elapsed

\* C21: the elapsed time an iteration works with is the simulator's time
\* minus the simulator's time of the first iteration, so it is 0 in the
\* first iteration and the same in two runs whose simulator times differ by
\* a constant; the loop is left by duration exactly on that value.
C21_OffsetIndependent ==
    /\ (phase = "Running" /\ (InDone("time") \/ InDone("check")))
          => UsedElapsed = SimElapsed
    /\ (HasDuration(script) /\ exitReason = "duration")
          => (UsedElapsed = SimElapsed /\ Expired(script, SimElapsed))

\* C22: once an iteration has updated the follow camera, the iteration began
\* with its step and the position the pose was built from is the target's
\* position at the simulator's time after that step.
C22_ReadAfterStep ==
    (phase = "Running" /\ InDone("follow")) =>
        /\ done[1] = "step"
        /\ camera_transform.x = EgoLoc(simTime).x
        /\ camera_transform.y = EgoLoc(simTime).y

\* C22 witness: the second iteration of junction_points has stepped, moved
\* the camera and rendered
C22_Witness ==
    /\ script = "junction"
    /\ phase = "Running"
    /\ done = <<"step", "follow", "render">>
    /\ simTime - firstSim >= Quantum
    /\ camera_transform.x = EgoLoc(simTime).x

\* C23: after a pose update the follow camera is above the target's x and y
\* at the configured height, looking straight down, whatever the target's z.
C23_FollowPose ==
    (phase = "Running" /\ InDone("follow")) =>
        /\ camera_transform.x = EgoLoc(simTime).x
        /\ camera_transform.y = EgoLoc(simTime).y
        /\ camera_transform.z = DroneHeight(script)
        /\ camera_transform.pitch = -90
        /\ camera_transform.yaw = 0
        /\ camera_transform.roll = 0

\* C23 witness: test02's drone camera has followed an ego whose z is not 0
C23_Witness ==
    /\ script = "test02"
    /\ phase = "Running"
    /\ InDone("follow")
    /\ EgoLoc(simTime).z # 0
    /\ camera_transform = Pose(EgoLoc(simTime).x, EgoLoc(simTime).y, 80, -90, 0, 0)
    /\ camera_transform # SpawnPose(script)

\* synchronous mode was enabled for the scenario
SyncEnabled == argsSync \/ script = "dual"

\* C25: an iteration issues one step, and the step is world.tick() exactly
\* when synchronous mode was enabled for the scenario, world.wait_for_tick()
\* otherwise.
C25_StepByConfig ==
    (phase = "Running" /\ done # <<>>) =>
        /\ done[1] = "step"
        /\ \A i \in 2..Len(done) : done[i] # "step"
        /\ issued = (IF SyncEnabled THEN "tick" ELSE "wait")

\* a move of the lifecycle along Initializing, Running, Terminating, Stopped
ForwardMove ==
    \/ phase' = phase
    \/ phase = "Initializing" /\ phase' \in {"Running", "Stopped"}
    \/ phase = "Running" /\ phase' = "Terminating"
    \/ phase = "Terminating" /\ phase' = "Stopped"

\* Running is entered when the last statement of setup has run with no
\* exception; setup ends the run only by an exception
SetupOutcome ==
    /\ (phase = "Initializing" /\ phase' = "Running")
          => (err' = "none" /\ idx = Len(SetupOps(script)))
    /\ (phase = "Initializing" /\ phase' \in {"Terminating", "Stopped"})
          => (err' # "none" /\ errPhase' = "Initializing")

\* once the finally block has begun nothing steps the simulator or applies
\* a control, and the end of the run is final
Winding ==
    /\ phase \in {"Terminating", "Stopped"}
          => UNCHANGED <<simTime, firstSim, issued, ctl>>
    /\ phase = "Stopped" => phase' = "Stopped"

\* C26 as stated: the lifecycle only moves forward, Running is entered only
\* after setup has succeeded, Terminating is entered only from Running,
\* Stopped is terminal, and once Terminating has begun no step is issued and
\* no control is applied.
C26_OnlyFromRunning ==
    [][ForwardMove /\ SetupOutcome /\ Winding]_vars

\* C26: the lifecycle only moves forward, Running is entered only after
\* setup has succeeded, Terminating is entered from Running, or from
\* Initializing by an exception of the dual-view script's setup, Stopped is
\* terminal, and once Terminating has begun no step is issued and no control
\* is applied.
C26_Lifecycle ==
    [][/\ ForwardMove
          \/ (phase = "Initializing" /\ phase' = "Terminating" /\ script = "dual")
       /\ SetupOutcome
       /\ Winding]_vars

\* C26 witness: an exception in the dual-view script's setup has taken it
\* from Initializing into the finally block
C26_Witness ==
    /\ script = "dual"
    /\ phase = "Terminating"
    /\ errPhase = "Initializing"
    /\ firstSim = -1

\* C27: the motion-logging script writes ego_trajectory.csv once, as the
\* first thing of its finally block and so on every way of leaving the
\* loop, never before; the file has the header time,x,y,z,speed,yaw and one
\* row per sample appended in the loop, a sample carries the elapsed time of
\* its iteration, and the times start at 0 and never decrease.
C27_TrajectoryWrittenOnce ==
    script = "traces" =>
        /\ csvWrites <= 1
        /\ phase \in {"Initializing", "Running"} => (csvWrites = 0 /\ csvFile = NoFile)
        /\ (phase = "Terminating" /\ idx > 1) => csvWrites = 1
        /\ (phase = "Stopped" /\ errPhase # "Initializing") => csvWrites = 1
        /\ csvWrites = 1 =>
              /\ csvFile.header = <<"time", "x", "y", "z", "speed", "yaw">>
              /\ csvFile.rows = trajectory
              /\ csvFile.times = samples
        /\ (phase = "Running" /\ InDone("log")) =>
              (trajectory >= 1 /\ samples.last = SimElapsed)
        /\ samples.sorted
        /\ trajectory >= 1 => (samples.first = 0 /\ samples.last >= 0)

\* C27 witness: the loop was left by a QUIT event after two samples and the
\* file holds the two rows
C27_Witness ==
    /\ script = "traces"
    /\ phase = "Stopped"
    /\ exitReason = "quit"
    /\ csvWrites = 1
    /\ csvFile.rows = 2
    /\ csvFile.times.first = 0
    /\ csvFile.times.last > 0

\* C28: a camera's slot is assigned only while the camera is alive and its
\* stop() has not been called.
C28_NoPublishAfterStop ==
    [][\A c \in Cams :
          slot'[c] # slot[c] => (~stopCalled[c] /\ alive[c] = "alive")]_vars

\* the projection of landmark i of the overlay loop
LandmarkPixel(i) ==
    ProjectWorldToImage(LocDraw(junctions[i]), world_2_camera, K)

\* C24: the overlay loop handles every landmark in turn, whatever it did
\* for the ones before; the marker of a landmark is drawn exactly when its
\* projection is not None and its pixel has 0 <= x < width and
\* 0 <= y < height, and a landmark that fails the test is passed over.
C24_MarkerOnlyInViewport ==
    /\ Len(markers) <= Len(junctions)
    /\ \A i \in 1..Len(markers) :
          LET p == LandmarkPixel(i) IN
          /\ markers[i].label = i - 1
          /\ markers[i].none = p.none
          /\ markers[i].drawn <=>
                /\ ~p.none
                /\ 0 <= p.pixel[1] /\ p.pixel[1] < size[1]
                /\ 0 <= p.pixel[2] /\ p.pixel[2] < size[2]

\* C24 witness: of two landmarks the first projects to the pixel column
\* `width` and is passed over, the second is drawn
C24_Witness ==
    /\ Len(markers) = 2
    /\ ~markers[1].none
    /\ markers[1].pixel[1] = size[1]
    /\ markers[1].pixel[2] \in 0..(size[2] - 1)
    /\ ~markers[1].drawn
    /\ markers[2].drawn

\* C29: get_intrinsic_matrix fails exactly when width, height or fov is not
\* positive, and otherwise returns a matrix with the principal point
\* (width / 2, height / 2) and the same finite focal length in both diagonal
\* entries.
C29_IntrinsicValidates ==
    intrinsic.returned =>
        /\ intrinsic.raised <=>
              (intrinsic.width <= 0 \/ intrinsic.height <= 0 \/ intrinsic.fov <= 0)
        /\ ~intrinsic.raised =>
              /\ intrinsic.k02.d > 0 /\ 2 * intrinsic.k02.n = intrinsic.width * intrinsic.k02.d
              /\ intrinsic.k12.d > 0 /\ 2 * intrinsic.k12.n = intrinsic.height * intrinsic.k12.d
              /\ intrinsic.k00 = intrinsic.k11
              /\ intrinsic.k00.d > 0

\* the attempts of spawn_vehicle_safe so far are at the first candidates of
\* the shuffled list, one each, and none but the last has succeeded
AttemptsInOrder ==
    /\ Len(spawn.attempts) <= Min(spawn.tries, Len(spawn.spawn_points))
    /\ \A k \in 1..Len(spawn.attempts) :
          /\ spawn.attempts[k].sp = spawn.spawn_points[k]
          /\ spawn.attempts[k].ok => k = Len(spawn.attempts)
    /\ \A j, k \in 1..Len(spawn.attempts) :
          j # k => spawn.attempts[j].sp # spawn.attempts[k].sp

\* what spawn_vehicle_safe has returned: the vehicle of the last attempt and
\* its spawn point, or (None, None) after min(tries, len) failures
ReturnsFirstSuccess ==
    spawn.returned =>
        IF spawn.v
        THEN /\ spawn.attempts # <<>>
             /\ spawn.attempts[Len(spawn.attempts)].ok
             /\ spawn.sp = spawn.attempts[Len(spawn.attempts)].sp
        ELSE /\ spawn.sp = 0
             /\ Len(spawn.attempts) = Min(spawn.tries, Len(spawn.spawn_points))
             /\ \A k \in 1..Len(spawn.attempts) : ~spawn.attempts[k].ok

\* C30: spawn_vehicle_safe makes at most min(tries, number of candidates)
\* attempts, each at another candidate of the shuffled list, stops at the
\* first success and returns that vehicle with its spawn point, returns
\* (None, None) when every attempt failed, and always returns.
C30_BoundedSpawn ==
    /\ [](AttemptsInOrder /\ ReturnsFirstSuccess)
    /\ <>spawn.returned

\* C30 witness: with more candidates than tries the call has given up after
\* `tries` failed attempts
C30_Witness ==
    /\ spawn.returned
    /\ ~spawn.v
    /\ spawn.tries = 2
    /\ Len(spawn.spawn_points) = 3
    /\ Len(spawn.attempts) = 2
    /\ spawn.spawn_points # <<1, 2, 3>>

\* the step call at hand never returns: world.wait_for_tick() on a simulator
\* in synchronous mode that nothing ticks
StepBlocked == At("Running", "step") /\ running /\ ~UsesTick /\ world.sync

\* C31: when every step call returns, a run reaches Stopped whether or not a
\* QUIT event ever arrives.
C31_ReachesStopped == <>(phase = "Stopped" \/ StepBlocked)

\* junction_dict after the first i segments of the topology
DictAfter(i) == ScanTopology(SubSeq(topology, 1, i), 1, <<>>)

\* C32: after every segment of the scan, and when the centroids are
\* computed, every junction id in junction_dict has at least one position,
\* so no centroid is a division by zero.
C32_NoEmptyAccumulator ==
    aggregation.returned =>
          /\ \A i \in 0..Len(topology) :
                LET d == DictAfter(i) IN
                \A k \in 1..Len(d) : d[k].locs # <<>>
          /\ \A k \in 1..Len(aggregation.junction_dict) :
                Len(aggregation.junction_dict[k].locs) >= 1
          /\ \A k \in 1..Len(aggregation.centers) :
                LET c == aggregation.centers[k].center IN
                c.x.d # 0 /\ c.y.d # 0 /\ c.z.d # 0

\* C32 witness: a topology with a segment outside every junction and two
\* junction ids, one of them seen once, has been aggregated
C32_Witness ==
    /\ aggregation.returned
    /\ Len(topology) = 3
    /\ \E i \in 1..3 : ~topology[i][1].is_junction
    /\ Len(aggregation.junction_dict) = 2
    /\ Len(aggregation.junction_dict[2].locs) = 1
    /\ Len(aggregation.centers) = 2

\* C33: in every iteration a junction that is drawn is labelled with its
\* index in the junction list (counted from 0), whichever junctions before
\* it were passed over, so it has the same label throughout the run.
C33_StableLabels ==
    /\ Len(labels) = Len(junctions)
    /\ \A i \in 1..Len(labels) : labels[i] \subseteq {i - 1}
    /\ \A i \in 1..Len(markers) : markers[i].drawn => markers[i].label = i - 1

\* C33 witness: the second junction was drawn with label 1 in iterations
\* that passed over the first, and a later iteration has drawn neither
C33_Witness ==
    /\ Len(junctions) = 2
    /\ labels = <<{}, {1}>>
    /\ Len(markers) = 2
    /\ ~markers[1].drawn
    /\ ~markers[2].drawn
    /\ markers[2].none

\* actor a is given a control in this step
Applied(a) == ctl'[a] # NoCtl /\ ctl'[a] # ctl[a]

\* C34: in a script with a TOTAL_TIME every control is applied at an elapsed
\* time below TOTAL_TIME, and the iteration that leaves the loop by the
\* duration test has applied none.
C34_NoControlAtExpiry ==
    [][HasDuration(script) =>
          /\ \A a \in Actors :
                Applied(a) => (0 <= elapsed' /\ elapsed' < TotalTime(script))
          /\ exitReason' = "duration" => \A a \in Actors : ctl'[a] = NoCtl]_vars

\* C34 witness: demo1 has left the loop in the iteration whose elapsed time
\* is TOTAL_TIME, right after the duration test, with the ego alive
C34_Witness ==
    /\ script = "demo1"
    /\ phase = "Terminating"
    /\ exitReason = "duration"
    /\ elapsed = 20
    /\ done = <<"step", "time", "check">>
    /\ alive["ego"] = "alive"
    /\ ctl["ego"] = NoCtl

\* C35: once a throttle control was applied at an elapsed time >= RED_END,
\* no iteration applies a brake.
C35_BrakeContiguous ==
    (HasRedRule(script) /\ goSeen) =>
        \A a \in Actors : ctl[a] = NoCtl \/ (ctl[a].brake = 0 /\ ctl[a].throttle > 0)

\* C35 witness: the motion-logging script has braked its NPC from 10 s to
\* 15 s and drives it again at 30 s
C35_Witness ==
    /\ script = "traces"
    /\ phase = "Running"
    /\ goSeen
    /\ elapsed = 30
    /\ ctl["npc1"] = Ctl(7, 0)

\* C36: start_time is assigned once, in the first iteration, where it takes
\* the simulator's time of that iteration and elapsed is 0; no later
\* iteration changes it, and elapsed is never negative.
C36_OriginWrittenOnce ==
    [][/\ start_time' # start_time =>
             /\ start_time = -1
             /\ start_time' = simTime'
             /\ start_time' = firstSim'
             /\ elapsed' = 0
       /\ elapsed' # elapsed => elapsed' >= 0]_vars

\* C36 witness: a later iteration of test02 has computed a positive elapsed
\* from the origin of the first iteration
C36_Witness ==
    /\ script = "test02"
    /\ phase = "Running"
    /\ InDone("time")
    /\ start_time = firstSim
    /\ elapsed >= 2 * Quantum
    /\ elapsed = simTime - start_time

\* C37: the slot of a camera is assigned only by the last statement of that
\* camera's callback, which stores the surface it has built, never by a
\* statement of the script's loop, setup or teardown; a slot that holds a
\* surface is never empty again.
C37_SingleWriter ==
    [][\A c \in Cams :
          /\ slot'[c] # slot[c] =>
                /\ cb[c].pc = "assign"
                /\ slot'[c] = cb[c].frame
                /\ UNCHANGED <<phase, idx, done>>
          /\ slot[c] # 0 => slot'[c] # 0]_vars

\* C37 witness: the second frame of a camera has replaced the first in its
\* slot and the loop has blitted it
C37_Witness ==
    /\ published["cam1"] = 2
    /\ slot["cam1"] = 2
    /\ blit["cam1"] = 2

====
